---- MODULE Spec2Model ----
(***************************************************************************)
(* Model of harvey's slide-file loader (SlideFile::load,                   *)
(* src/formats/slides.rs) and of the process-wide YAML source registry it  *)
(* feeds (SOURCES, from_source, node_from_source, src/yaml.rs).            *)
(*                                                                         *)
(* A line of text is a sequence of one-character strings.  A String that   *)
(* the code builds by appending whole lines, each followed by '\n'         *)
(* (raw_meta, a part, the notes), is the sequence of those lines.          *)
(* The grammar layer (marked_yaml) lies outside the repository: its        *)
(* verdict on a text is an input of the step that calls it.                *)
(***************************************************************************)
EXTENDS Integers, Sequences, FiniteSets, TLC

\* ---- bounds ----
MaxLines == 5      \* longest file scanned, in lines
MaxDash == 4       \* longest dash-only line of the alphabet
MaxPrior == 1      \* records already in the registry when load starts
NThreads == 2      \* threads calling the parser concurrently
MaxCalls == 3      \* parser calls started in a concurrent run

VARIABLES
    pc,            \* load: "read", "scan", "final", "done"
    mode,          \* load: the ParseMode value
    raw_lineofs,   \* load: offset of the next line of text.lines().enumerate()
    line,          \* load: the line most recently taken from the iterator
    text,          \* history: the lines taken from the iterator so far
    slides,        \* load: ret.slides
    errs,          \* load: errs
    result,        \* load: the value returned
    seen,          \* history: lines consumed for the slide in progress, with the mode they were read in
    seenOf,        \* history: seen, frozen per slide pushed on ret.slides
    sources,       \* yaml: the Vec behind SOURCES
    calls,         \* history: one entry per parser call that has returned
    lock,          \* yaml: holder of the SOURCES mutex, 0 when free
    tpc,           \* yaml: per thread, position inside from_source / node_from_source
    tcall,         \* yaml: per thread, the call in progress
    started        \* yaml: number of calls started in the concurrent run

vars == <<pc, mode, raw_lineofs, line, text, slides, errs, result, seen, seenOf,
          sources, calls, lock, tpc, tcall, started>>

loadVars == <<pc, mode, raw_lineofs, line, text, slides, errs, result, seen, seenOf>>
threadVars == <<lock, tpc, tcall, started>>

\* ---- lines ----
RECURSIVE Dash(_)
Dash(n) == IF n = 0 THEN <<>> ELSE Append(Dash(n - 1), "-")

Stars == <<"*", "*", "*">>
Quest == <<"?", "?", "?">>
Dots == <<".", ".", ".">>
Word == <<"a">>
Empty == <<>>

\* the empty line, "---", the longest dash line, and the marker and content lines
DashLens == {0, 3, MaxDash}
Lines == {Dash(n) : n \in DashLens} \cup {Stars, Quest, Dots, Word}

\* line.chars().all(|c| c == '-')
AllDash(l) == \A i \in 1..Len(l) : l[i] = "-"

Threads == 1..NThreads
NoThread == 0
fname == "slides.md"

\* ---- src/yaml.rs ----
DiskFile(p) == [kind |-> "DiskFile", path |-> p]
Resource(n) == [kind |-> "Resource", name |-> n]
SlideSource(f, nr, ofs) == [kind |-> "Slide", file |-> f, slidenr |-> nr, lineofs |-> ofs]

\* the handle passed to the grammar layer: sources.len()
Handle(srcs) == Len(srcs)

\* variant: an origin already registered is not stored again
PushSourceDedup(srcs, source) ==
    IF \E i \in 1..Len(srcs) : srcs[i] = source THEN srcs ELSE Append(srcs, source)

\* sources.push(source)
PushSource(srcs, source) == Append(srcs, source)

\* the body of from_source / node_from_source, from the locked registry on:
\* parse with handle sources.len(); `?` returns on failure before the push
ParseWithSource(srcs, source, content, ok) ==
    IF ok
    THEN [ok |-> TRUE, handle |-> Handle(srcs),
          node |-> [src |-> Handle(srcs), text |-> content],
          sources |-> PushSource(srcs, source)]
    ELSE [ok |-> FALSE, handle |-> Handle(srcs),
          err |-> [src |-> Handle(srcs)],
          sources |-> srcs]

\* history entry of one returned call: the handle the grammar layer was given,
\* the registry length when the handle was read and when the call returned,
\* and the index the record was pushed at (-1 when nothing was pushed)
CallEntry(fn, source, handle, ok, lenBefore, lenAfter, index) ==
    [fn |-> fn, source |-> source, handle |-> handle, ok |-> ok,
     lenBefore |-> lenBefore, lenAfter |-> lenAfter, index |-> index]

\* variant: the lock is granted while another thread holds it
LockAlwaysFree(holder) == TRUE

\* Mutex::lock() returns only when no thread holds the mutex
LockFree(holder) == holder = NoThread

YamlFns == {"from_source", "node_from_source"}
YamlSources == {DiskFile("deck.yaml"), Resource("base.yaml"), SlideSource(fname, 1, 2)}

\* ---- src/formats/slides.rs ----
Initial == [tag |-> "Initial"]
Aborting == [tag |-> "Aborting"]
Metadata(ofs, delim, raw_meta) ==
    [tag |-> "Metadata", ofs |-> ofs, delim |-> delim, raw_meta |-> raw_meta]
CapturingSlide(slide) == [tag |-> "CapturingSlide", slide |-> slide]
CapturingNotes(slide) == [tag |-> "CapturingNotes", slide |-> slide]

MissingInitialDelimiter == [kind |-> "MissingInitialDelimiter"]
IncompleteMetadata(n) == [kind |-> "IncompleteMetadata", line |-> n]
BadMetadata(n, e) == [kind |-> "BadMetadata", line |-> n, cause |-> e]
IOError == [kind |-> "IO"]

\* variant: the length test off by one
TerminatorAtThree(l) == IF Len(l) >= 3 THEN Dots ELSE Empty

\* if line.len() > 3 { "..." } else { "" }
Terminator(l) == IF Len(l) > 3 THEN Dots ELSE Empty

\* Metadata(raw_lineofs, <terminator>, String::new())
OpenMetadata(ofs, l) == Metadata(ofs, Terminator(l), <<>>)

\* variant: the block's opening offset is recorded instead of the closing line's
SlideProvenanceAtOpening(f, nslides, ofs, lineofs) == SlideSource(f, nslides + 1, ofs)

\* YamlSource::Slide(ret.fname(), ret.slides.len() + 1, raw_lineofs)
SlideProvenance(f, nslides, ofs, lineofs) == SlideSource(f, nslides + 1, lineofs)

\* variant: a dash-only line closes the block as well
IsTerminatorOrDashes(l, delim) == l = delim \/ (Len(l) > 0 /\ AllDash(l))

\* line == delim
IsTerminator(l, delim) == l = delim

\* variant: the start line is the 0-based offset
NewSlideZeroBased(node, ofs) ==
    [meta |-> node, lineno |-> ofs, parts |-> << <<>> >>, notes |-> <<>>]

\* variant: the slide starts with no part at all
NewSlideNoPart(node, ofs) ==
    [meta |-> node, lineno |-> ofs + 1, parts |-> <<>>, notes |-> <<>>]

\* SlideContent { meta: node, lineno: ofs + 1, parts: vec![String::new()], notes: String::new() }
NewSlide(node, ofs) ==
    [meta |-> node, lineno |-> ofs + 1, parts |-> << <<>> >>, notes |-> <<>>]

\* slide.parts.push(String::new())
PushPart(parts) == Append(parts, <<>>)

\* writeln!(slide.parts.last_mut().unwrap(), "{}", line)
WriteLastPart(parts, l) == [parts EXCEPT ![Len(parts)] = Append(@, l)]

\* writeln!(&mut slide.notes, "{}", line)
WriteNotes(notes, l) == Append(notes, l)

\* ret.slides.push(slide)
PushSlide(ss, slide) == Append(ss, slide)

\* variant: a deck with slides is returned despite recorded errors
LoadResultPartial(ss, es) ==
    IF es = <<>> \/ ss # <<>>
    THEN [tag |-> "Ok", fname |-> fname, slides |-> ss]
    ELSE [tag |-> "Err", errs |-> es]

\* if errs.is_empty() { Ok(ret) } else { Err(errs) }
LoadResult(ss, es) ==
    IF es = <<>>
    THEN [tag |-> "Ok", fname |-> fname, slides |-> ss]
    ELSE [tag |-> "Err", errs |-> es]

NoResult == [tag |-> "none"]
NoCall == [fn |-> "none"]

PriorSources == {[i \in 1..n |-> DiskFile("deck.yaml")] : n \in 0..MaxPrior}

Init ==
    /\ pc = "read"
    /\ mode = Initial
    /\ raw_lineofs = 0
    /\ line = Empty
    /\ text = <<>>
    /\ slides = <<>>
    /\ errs = <<>>
    /\ result = NoResult
    /\ seen = <<>>
    /\ seenOf = <<>>
    /\ sources \in PriorSources
    /\ calls = <<>>
    /\ lock = NoThread
    /\ tpc = [t \in Threads |-> "idle"]
    /\ tcall = [t \in Threads |-> NoCall]
    /\ started = 0

\* std::fs::read_to_string(..).map_err(|e| vec![e.into()])?  failing
ReadError ==
    /\ pc = "read"
    /\ pc' = "done"
    /\ result' = [tag |-> "Err", errs |-> <<IOError>>]
    /\ UNCHANGED <<mode, raw_lineofs, line, text, slides, errs, seen, seenOf,
                   sources, calls, lock, tpc, tcall, started>>

\* std::fs::read_to_string succeeding
ReadOk ==
    /\ pc = "read"
    /\ pc' = "scan"
    /\ UNCHANGED <<mode, raw_lineofs, line, text, slides, errs, result, seen, seenOf,
                   sources, calls, lock, tpc, tcall, started>>

\* the iterator yields line l at offset raw_lineofs
Take(l) ==
    /\ pc = "scan"
    /\ raw_lineofs < MaxLines
    /\ line' = l
    /\ raw_lineofs' = raw_lineofs + 1
    /\ text' = Append(text, l)

\* Initial => ...
InitialLine ==
    /\ mode.tag = "Initial"
    /\ \E l \in Lines :
        /\ Take(l)
        /\ IF ~AllDash(l)
           THEN pc' = "final" /\ mode' = mode
           ELSE pc' = pc /\ mode' = OpenMetadata(raw_lineofs, l)
    /\ UNCHANGED <<slides, errs, result, seen, seenOf,
                   sources, calls, lock, tpc, tcall, started>>

\* Metadata(ofs, delim, raw_meta) => ...
MetadataLine ==
    /\ mode.tag = "Metadata"
    /\ \E l \in Lines :
        /\ Take(l)
        /\ IF IsTerminator(l, mode.delim)
           THEN \E ok \in BOOLEAN :
                LET source == SlideProvenance(fname, Len(slides), mode.ofs, raw_lineofs)
                    r == ParseWithSource(sources, source, mode.raw_meta, ok)
                IN  /\ sources' = r.sources
                    /\ calls' = Append(calls,
                           CallEntry("node_from_source", source, r.handle, r.ok,
                                     Len(sources), Len(r.sources),
                                     IF r.ok THEN Len(sources) ELSE -1))
                    /\ IF r.ok
                       THEN /\ mode' = CapturingSlide(NewSlide(r.node, mode.ofs))
                            /\ errs' = errs
                       ELSE /\ errs' = Append(errs, BadMetadata(mode.ofs + 1, r.err))
                            /\ mode' = Aborting
           ELSE /\ mode' = Metadata(mode.ofs, mode.delim, Append(mode.raw_meta, l))
                /\ UNCHANGED <<errs, sources, calls>>
    /\ seen' = <<>>
    /\ UNCHANGED <<pc, slides, result, seenOf, lock, tpc, tcall, started>>

\* CapturingSlide(mut slide) => ...
CapturingSlideLine ==
    /\ mode.tag = "CapturingSlide"
    /\ \E l \in Lines :
        /\ Take(l)
        /\ IF l = Stars
           THEN /\ mode' = CapturingSlide([mode.slide EXCEPT !.parts = PushPart(@)])
                /\ seen' = Append(seen, [line |-> l, tag |-> mode.tag])
                /\ UNCHANGED <<slides, seenOf>>
           ELSE IF l = Quest
           THEN /\ mode' = CapturingNotes(mode.slide)
                /\ seen' = Append(seen, [line |-> l, tag |-> mode.tag])
                /\ UNCHANGED <<slides, seenOf>>
           ELSE IF AllDash(l)
           THEN /\ slides' = PushSlide(slides, mode.slide)
                /\ mode' = OpenMetadata(raw_lineofs, l)
                /\ seenOf' = Append(seenOf, seen)
                /\ seen' = <<>>
           ELSE /\ mode' = CapturingSlide([mode.slide EXCEPT !.parts = WriteLastPart(@, l)])
                /\ seen' = Append(seen, [line |-> l, tag |-> mode.tag])
                /\ UNCHANGED <<slides, seenOf>>
    /\ UNCHANGED <<pc, errs, result, sources, calls, lock, tpc, tcall, started>>

\* CapturingNotes(mut slide) => ...
CapturingNotesLine ==
    /\ mode.tag = "CapturingNotes"
    /\ \E l \in Lines :
        /\ Take(l)
        /\ IF AllDash(l)
           THEN /\ slides' = PushSlide(slides, mode.slide)
                /\ mode' = OpenMetadata(raw_lineofs, l)
                /\ seenOf' = Append(seenOf, seen)
                /\ seen' = <<>>
           ELSE /\ mode' = CapturingNotes([mode.slide EXCEPT !.notes = WriteNotes(@, l)])
                /\ seen' = Append(seen, [line |-> l, tag |-> mode.tag])
                /\ UNCHANGED <<slides, seenOf>>
    /\ UNCHANGED <<pc, errs, result, sources, calls, lock, tpc, tcall, started>>

\* variant: once aborting, the scan never reopens a block
AbortingLineStuck ==
    /\ mode.tag = "Aborting"
    /\ \E l \in Lines :
        /\ Take(l)
        /\ mode' = Aborting
    /\ UNCHANGED <<pc, slides, errs, result, seen, seenOf,
                   sources, calls, lock, tpc, tcall, started>>

\* Aborting => ...
AbortingLine ==
    /\ mode.tag = "Aborting"
    /\ \E l \in Lines :
        /\ Take(l)
        /\ IF AllDash(l)
           THEN mode' = OpenMetadata(raw_lineofs, l)
           ELSE mode' = Aborting
    /\ UNCHANGED <<pc, slides, errs, result, seen, seenOf,
                   sources, calls, lock, tpc, tcall, started>>

\* text.lines() is exhausted: the for loop ends
EndOfLines ==
    /\ pc = "scan"
    /\ pc' = "final"
    /\ UNCHANGED <<mode, raw_lineofs, line, text, slides, errs, result, seen, seenOf,
                   sources, calls, lock, tpc, tcall, started>>

\* variant: Aborting at end of input is reported like Initial
FinalErrsAbortingAsInitial(m, es) ==
    CASE m.tag \in {"Initial", "Aborting"} -> Append(es, MissingInitialDelimiter)
      [] m.tag = "Metadata" -> Append(es, IncompleteMetadata(m.ofs + 1))
      [] OTHER -> es

\* the errors after match mode { Initial => .., Metadata(ofs, _, _) => .., .. }
FinalErrs(m, es) ==
    CASE m.tag = "Initial" -> Append(es, MissingInitialDelimiter)
      [] m.tag = "Metadata" -> Append(es, IncompleteMetadata(m.ofs + 1))
      [] OTHER -> es

\* variant: a slide still capturing notes at end of input is dropped
FinalSlidesDropNotes(m, ss) ==
    IF m.tag = "CapturingSlide" THEN PushSlide(ss, m.slide) ELSE ss

\* the deck after match mode { .. CapturingSlide(slide) | CapturingNotes(slide) => .. }
FinalSlides(m, ss) ==
    IF m.tag \in {"CapturingSlide", "CapturingNotes"}
    THEN PushSlide(ss, m.slide)
    ELSE ss

\* match mode { ... } after the loop, then the returned value
Finalize ==
    /\ pc = "final"
    /\ pc' = "done"
    /\ LET es == FinalErrs(mode, errs)
           ss == FinalSlides(mode, slides)
       IN  /\ errs' = es
           /\ slides' = ss
           /\ seenOf' = IF mode.tag \in {"CapturingSlide", "CapturingNotes"}
                        THEN Append(seenOf, seen) ELSE seenOf
           /\ result' = LoadResult(ss, es)
    /\ UNCHANGED <<mode, raw_lineofs, line, text, seen, sources, calls, lock, tpc, tcall, started>>

Next ==
    \/ ReadError
    \/ ReadOk
    \/ InitialLine
    \/ MetadataLine
    \/ CapturingSlideLine
    \/ CapturingNotesLine
    \/ AbortingLine
    \/ EndOfLines
    \/ Finalize

Spec == Init /\ [][Next]_vars

\* ---- concurrent callers of src/yaml.rs ----
RegInit ==
    /\ pc = "off"
    /\ mode = Initial
    /\ raw_lineofs = 0
    /\ line = Empty
    /\ text = <<>>
    /\ slides = <<>>
    /\ errs = <<>>
    /\ result = NoResult
    /\ seen = <<>>
    /\ seenOf = <<>>
    /\ sources \in PriorSources
    /\ calls = <<>>
    /\ lock = NoThread
    /\ tpc = [t \in Threads |-> "idle"]
    /\ tcall = [t \in Threads |-> NoCall]
    /\ started = 0

\* a thread enters from_source / node_from_source with a source and a text
Call(t) ==
    /\ tpc[t] = "idle"
    /\ started < MaxCalls
    /\ \E fn \in YamlFns, source \in YamlSources :
        tcall' = [tcall EXCEPT ![t] = [fn |-> fn, source |-> source]]
    /\ tpc' = [tpc EXCEPT ![t] = "lock"]
    /\ started' = started + 1
    /\ UNCHANGED <<sources, calls, lock>>
    /\ UNCHANGED loadVars

\* let mut sources = sources();
Acquire(t) ==
    /\ tpc[t] = "lock"
    /\ LockFree(lock)
    /\ lock' = t
    /\ tpc' = [tpc EXCEPT ![t] = "parse"]
    /\ UNCHANGED <<sources, calls, tcall, started>>
    /\ UNCHANGED loadVars

\* parse_yaml_with_options(sources.len(), content, options)?
\* on Err the function returns here and the guard is dropped
Parse(t) ==
    /\ tpc[t] = "parse"
    /\ \E ok \in BOOLEAN :
        IF ok
        THEN /\ tcall' = [tcall EXCEPT ![t] =
                     [fn |-> @.fn, source |-> @.source,
                      handle |-> Handle(sources), lenBefore |-> Len(sources)]]
             /\ tpc' = [tpc EXCEPT ![t] = "push"]
             /\ UNCHANGED <<calls, lock>>
        ELSE /\ calls' = Append(calls,
                     CallEntry(tcall[t].fn, tcall[t].source, Handle(sources), FALSE,
                               Len(sources), Len(sources), -1))
             /\ tcall' = [tcall EXCEPT ![t] = NoCall]
             /\ tpc' = [tpc EXCEPT ![t] = "idle"]
             /\ lock' = NoThread
    /\ UNCHANGED <<sources, started>>
    /\ UNCHANGED loadVars

\* sources.push(source);
Push(t) ==
    /\ tpc[t] = "push"
    /\ sources' = PushSource(sources, tcall[t].source)
    /\ tcall' = [tcall EXCEPT ![t] =
            [fn |-> @.fn, source |-> @.source, handle |-> @.handle,
             lenBefore |-> @.lenBefore, index |-> Len(sources)]]
    /\ tpc' = [tpc EXCEPT ![t] = "ret"]
    /\ UNCHANGED <<calls, lock, started>>
    /\ UNCHANGED loadVars

\* Ok(ret): the guard is dropped on return
Return(t) ==
    /\ tpc[t] = "ret"
    /\ calls' = Append(calls,
            CallEntry(tcall[t].fn, tcall[t].source, tcall[t].handle, TRUE,
                      tcall[t].lenBefore, Len(sources), tcall[t].index))
    /\ tcall' = [tcall EXCEPT ![t] = NoCall]
    /\ tpc' = [tpc EXCEPT ![t] = "idle"]
    /\ lock' = NoThread
    /\ UNCHANGED <<sources, started>>
    /\ UNCHANGED loadVars

RegNext ==
    \E t \in Threads :
        \/ Call(t)
        \/ Acquire(t)
        \/ Parse(t)
        \/ Push(t)
        \/ Return(t)

RegSpec == RegInit /\ [][RegNext]_vars

\* ---- properties ----

\* the scan has just taken a line (one iteration of the for loop)
TookLine == pc = "scan" /\ raw_lineofs' = raw_lineofs + 1

\* a delimiter line in the words of the specification: non-empty, dashes only
DashOnly(l) == Len(l) > 0 /\ \A i \in 1..Len(l) : l[i] = "-"

DelimiterStates == {"Initial", "CapturingSlide", "CapturingNotes", "Aborting"}

\* load returned because the file could not be read: no scan took place
ReadFailed == pc = "done" /\ result = [tag |-> "Err", errs |-> <<IOError>>]

\* C1: load is all-or-nothing.  Once a scan has returned, the result is the
\* deck iff no error was recorded during the scan and its finalization; with
\* at least one error the result is the complete error list and carries no
\* slides, whatever was gathered in ret.slides.
C1_AllOrNothing ==
    (pc = "done" /\ ~ReadFailed) =>
        /\ (result.tag = "Ok") <=> (errs = <<>>)
        /\ result.tag = "Ok" => result.slides = slides
        /\ result.tag # "Ok" =>
              /\ result.tag = "Err"
              /\ result.errs = errs
              /\ "slides" \notin DOMAIN result

\* C1 witness: a scan returned errors although a slide had been gathered
C1_Witness ==
    /\ pc = "done"
    /\ result.tag = "Err"
    /\ Len(errs) >= 1
    /\ Len(slides) >= 1

\* C2: in Initial, CapturingSlide, CapturingNotes and Aborting a line opens a
\* Metadata block iff it is non-empty and all dashes; an empty line finalizes
\* no slide and, while capturing, is appended to the last part / the notes.
C2_DelimiterIffNonEmptyDashes ==
    [][(TookLine /\ mode.tag \in DelimiterStates) =>
          /\ (mode'.tag = "Metadata") <=> DashOnly(line')
          /\ line' = Empty =>
                /\ slides' = slides
                /\ mode.tag = "CapturingSlide" =>
                      mode' = CapturingSlide([mode.slide EXCEPT
                                  !.parts = [@ EXCEPT ![Len(@)] = Append(@, Empty)]])
                /\ mode.tag = "CapturingNotes" =>
                      mode' = CapturingNotes([mode.slide EXCEPT
                                  !.notes = Append(@, Empty)])
      ]_vars

\* C3: a line that opens a Metadata block from any of the four states sets
\* the terminator to the empty line when the line's length is <= 3 and to
\* "..." when it is > 3.
C3_TerminatorByLength ==
    [][(TookLine /\ mode.tag \in DelimiterStates /\ mode'.tag = "Metadata") =>
          mode'.delim = (IF Len(line') <= 3 THEN Empty ELSE Dots)
      ]_vars

\* C3 witness: a slide was finalized by a dash line longer than 3, which
\* opened a block terminated by "..."
C3_Witness ==
    /\ pc = "scan"
    /\ mode.tag = "Metadata"
    /\ mode.raw_meta = <<>>
    /\ Len(line) > 3
    /\ mode.delim = Dots
    /\ Len(slides) >= 1

\* C4: when the first line is not a delimiter, or there is no line at all,
\* the scan stops there: no further line is taken, the parser is never
\* called, nothing is registered, and load returns exactly the one error
\* MissingInitialDelimiter and no slide.
C4_NoInitialDelimiterStops ==
    (pc = "done" /\ ~ReadFailed /\ (text = <<>> \/ ~DashOnly(text[1]))) =>
        /\ result = [tag |-> "Err", errs |-> <<MissingInitialDelimiter>>]
        /\ Len(text) <= 1
        /\ calls = <<>>
        /\ sources \in PriorSources
        /\ slides = <<>>

\* C5: every slide, in progress or pushed on the deck, has at least one part.
C5_AtLeastOneFragment ==
    /\ \A i \in 1..Len(slides) : Len(slides[i].parts) >= 1
    /\ mode.tag \in {"CapturingSlide", "CapturingNotes"} => Len(mode.slide.parts) >= 1
    /\ result.tag = "Ok" => \A i \in 1..Len(result.slides) : Len(result.slides[i].parts) >= 1

\* C5 witness: a content line was appended to the last part of a slide that
\* is now on the deck, while another slide is in progress
C5_Witness ==
    /\ mode.tag = "CapturingSlide"
    /\ Len(slides) >= 1
    /\ slides[1].parts[Len(slides[1].parts)] = <<Word>>

\* C6: on success the deck has one slide per metadata block that a delimiter
\* opened and its terminator closed, in file order: the blocks closed are the
\* parser calls of the scan, the i-th slide carries the tree of the i-th
\* call, its block was opened by a delimiter line, and start lines increase.
C6_OneSlidePerClosedBlock ==
    (pc = "done" /\ result.tag = "Ok") =>
        /\ Len(result.slides) = Len(calls)
        /\ \A i \in 1..Len(result.slides) :
              /\ i <= Len(calls) => result.slides[i].meta.src = calls[i].handle
              /\ DashOnly(text[result.slides[i].lineno])
        /\ \A i, j \in 1..Len(result.slides) :
              i < j => result.slides[i].lineno < result.slides[j].lineno

\* offset of the line that closed the metadata block of a slide, as registered
TerminatorOfs(slide) == sources[slide.meta.src + 1].lineofs

\* "***" lines after a slide's terminator and before the first following
\* "???" line, delimiter line or end of input
StarsOfBody(slide) ==
    LET first == TerminatorOfs(slide) + 2
    IN  Cardinality({k \in first..Len(text) :
            /\ text[k] = Stars
            /\ \A j \in first..(k - 1) : text[j] # Quest /\ ~DashOnly(text[j])})

PartsInProgress ==
    IF mode.tag \in {"CapturingSlide", "CapturingNotes"} THEN Len(mode.slide.parts) ELSE 0

\* C7: a "***" line read in CapturingSlide adds exactly one part and no other
\* line changes the number of parts of the slide in progress; a finalized
\* slide has 1 + (number of "***" lines between its terminator and the first
\* following "???", delimiter or end of input) parts.
C7_FragmentPerStars ==
    /\ [][(TookLine /\ mode.tag \in {"CapturingSlide", "CapturingNotes"}
              /\ mode'.tag \in {"CapturingSlide", "CapturingNotes"}) =>
             PartsInProgress' =
                 IF mode.tag = "CapturingSlide" /\ line' = Stars
                 THEN PartsInProgress + 1 ELSE PartsInProgress
         ]_vars
    /\ [](pc = "done" =>
             \A i \in 1..Len(slides) : Len(slides[i].parts) = 1 + StarsOfBody(slides[i]))

\* C8: in CapturingNotes no line leads back to CapturingSlide; a line that is
\* not a delimiter (further "???" and "***" lines included) is appended to
\* the notes and leaves the parts and the deck unchanged; a delimiter pushes
\* the slide as it stands.
C8_NotesUntilDelimiter ==
    [][(TookLine /\ mode.tag = "CapturingNotes") =>
          /\ mode'.tag # "CapturingSlide"
          /\ ~DashOnly(line') =>
                /\ mode' = CapturingNotes([mode.slide EXCEPT !.notes = Append(@, line')])
                /\ slides' = slides
          /\ DashOnly(line') => slides' = Append(slides, mode.slide)
      ]_vars

\* C9: every call of from_source / node_from_source that has returned,
\* successful or not, appended exactly one record to the registry, at the
\* index that was the handle given to the grammar layer.
C9_EveryCallRegisters ==
    \A i \in 1..Len(calls) :
        /\ calls[i].lenAfter = calls[i].lenBefore + 1
        /\ calls[i].index = calls[i].handle
        /\ sources[calls[i].handle + 1] = calls[i].source

\* C10: with calls interleaved across threads, the handle is read and the
\* record appended under one lock: a stored record sits at the index that
\* was its call's handle, no two stored records share a handle, and the
\* registry does not move between a call's handle read and its push.
C10_HandleIsIndex ==
    /\ \A i \in 1..Len(calls) :
          calls[i].ok =>
              /\ calls[i].index = calls[i].handle
              /\ sources[calls[i].index + 1] = calls[i].source
    /\ \A i, j \in 1..Len(calls) :
          (i < j /\ calls[i].ok /\ calls[j].ok) => calls[i].handle # calls[j].handle
    /\ \A t \in Threads :
          /\ tpc[t] = "push" => (tcall[t].handle = Len(sources) /\ lock = t)
          /\ tpc[t] = "ret" =>
                /\ tcall[t].index = tcall[t].handle
                /\ \A i \in 1..Len(calls) : calls[i].ok => calls[i].handle # tcall[t].handle

\* C10 witness: one thread is between its handle read and its push while
\* another waits for the lock, after an earlier call stored its record
C10_Witness ==
    \E t, u \in Threads :
        /\ t # u
        /\ tpc[t] = "push"
        /\ tpc[u] = "lock"
        /\ \E i \in 1..Len(calls) : calls[i].ok

\* C11: no handle is given to two parse attempts: whatever their outcome, two
\* calls that have returned were given different handles.
C11_HandlesNeverReused ==
    \A i, j \in 1..Len(calls) : i < j => calls[i].handle # calls[j].handle

\* C12: the registry is append-only: a step leaves its length or raises it
\* by exactly one, and every record stays at its index unchanged, also when
\* the origin pushed is already registered.
C12_AppendOnly ==
    [][/\ Len(sources') \in {Len(sources), Len(sources) + 1}
       /\ \A i \in 1..Len(sources) : sources'[i] = sources[i]
       /\ \A t \in Threads :
             (tpc[t] = "push" /\ tpc'[t] = "ret") =>
                 /\ Len(sources') = Len(sources) + 1
                 /\ sources'[Len(sources')] = tcall[t].source
      ]_vars

\* C12 witness: the same origin is stored at two indices
C12_Witness ==
    \E i, j \in 1..Len(sources) :
        /\ i < j
        /\ sources[i] = sources[j]
        /\ \E k \in 1..Len(calls) : calls[k].ok /\ calls[k].index = j - 1

\* C13: a metadata parse failure leaves the scan in Aborting, and in
\* Aborting a line that is not a delimiter (a blank line included) is
\* discarded: the scan stays in Aborting, and no line read in Aborting
\* touches the deck, the error list, the registry or the parser.
C13_AbortingDiscards ==
    [][/\ (TookLine /\ Len(errs') > Len(errs)) => mode' = Aborting
       /\ (TookLine /\ mode.tag = "Aborting") =>
             /\ (mode'.tag = "Metadata") <=> DashOnly(line')
             /\ ~DashOnly(line') => mode' = Aborting
             /\ UNCHANGED <<slides, errs, sources, calls>>
      ]_vars

\* number of entries of kind k in an error list
RECURSIVE CountKind(_, _)
CountKind(es, k) ==
    IF es = <<>> THEN 0
    ELSE (IF es[Len(es)].kind = k THEN 1 ELSE 0) + CountKind(SubSeq(es, 1, Len(es) - 1), k)

FailedCalls == Cardinality({i \in 1..Len(calls) : ~calls[i].ok})

\* C14: every block closed by its terminator calls the parser once and, when
\* the parse fails, appends exactly one BadMetadata error, however many
\* blocks failed before; the scan goes on after an error (a delimiter read in
\* Aborting reopens Metadata) and only a first line that is not a delimiter
\* stops it.
C14_ErrorsCollectedAcrossRecovery ==
    /\ [][/\ (TookLine /\ mode.tag = "Metadata" /\ line' = mode.delim) =>
                 /\ Len(calls') = Len(calls) + 1
                 /\ pc' = "scan"
                 /\ IF calls'[Len(calls')].ok
                    THEN errs' = errs
                    ELSE /\ Len(errs') = Len(errs) + 1
                         /\ SubSeq(errs', 1, Len(errs)) = errs
                         /\ errs'[Len(errs')].kind = "BadMetadata"
          /\ (TookLine /\ pc' # "scan") => (mode.tag = "Initial" /\ ~DashOnly(line'))
          /\ (TookLine /\ mode.tag = "Aborting" /\ DashOnly(line')) => mode'.tag = "Metadata"
         ]_vars
    /\ [](CountKind(errs, "BadMetadata") = FailedCalls)

\* C14 witness: a second block failed after the scan recovered from a first
C14_Witness ==
    /\ pc = "scan"
    /\ mode.tag = "Aborting"
    /\ CountKind(errs, "BadMetadata") = 2

\* C15: line numbers are those of the opening line, 1-based: Metadata keeps
\* the 0-based offset of the line that opened it, a slide created at the
\* terminator gets lineno = that offset + 1, and so do the BadMetadata error
\* of a failed parse and the IncompleteMetadata error at end of input.
C15_LineOfOpeningDelimiter ==
    [][/\ (TookLine /\ mode.tag # "Metadata" /\ mode'.tag = "Metadata") =>
             (mode'.ofs = raw_lineofs /\ text'[mode'.ofs + 1] = line')
       /\ (TookLine /\ mode.tag = "Metadata" /\ mode'.tag = "Metadata") =>
             mode'.ofs = mode.ofs
       /\ (TookLine /\ mode.tag = "Metadata" /\ mode'.tag = "CapturingSlide") =>
             (mode'.slide.lineno = mode.ofs + 1 /\ mode'.slide.lineno < raw_lineofs + 1)
       /\ (TookLine /\ mode.tag = "Metadata" /\ mode'.tag = "Aborting") =>
             errs'[Len(errs')] = [kind |-> "BadMetadata", line |-> mode.ofs + 1,
                                  cause |-> errs'[Len(errs')].cause]
       /\ (pc = "final" /\ pc' = "done" /\ mode.tag = "Metadata") =>
             errs'[Len(errs')] = [kind |-> "IncompleteMetadata", line |-> mode.ofs + 1]
       /\ (mode.tag \in {"CapturingSlide", "CapturingNotes"}
              /\ mode'.tag \in {"CapturingSlide", "CapturingNotes"}) =>
             mode'.slide.lineno = mode.slide.lineno
       /\ (Len(slides') = Len(slides) + 1) =>
             slides'[Len(slides')].lineno = mode.slide.lineno
      ]_vars

\* C15 witness: a second slide, opened at line 3, is on the deck and the
\* block opened after it was left incomplete
C15_Witness ==
    /\ pc = "done"
    /\ Len(slides) = 2
    /\ slides[2].lineno = 3
    /\ errs = <<IncompleteMetadata(5)>>

\* C16: when a block is closed, the provenance given to the parser is the
\* file's path, the number of slides already on the deck plus one, and the
\* 0-based offset of the terminator line, which lies after the opening line.
C16_ProvenanceOfTerminator ==
    [][(TookLine /\ mode.tag = "Metadata" /\ line' = mode.delim) =>
          /\ calls'[Len(calls')].source =
                [kind |-> "Slide", file |-> fname,
                 slidenr |-> Len(slides) + 1, lineofs |-> raw_lineofs]
          /\ text'[raw_lineofs + 1] = mode.delim
          /\ raw_lineofs > mode.ofs
          /\ calls'[Len(calls')].ok =>
                sources'[Len(sources')] = calls'[Len(calls')].source
      ]_vars

\* C16 witness: the second slide's block was registered with ordinal 2 and
\* the offset of its terminator
C16_Witness ==
    /\ Len(slides) = 1
    /\ mode.tag = "CapturingSlide"
    /\ Len(sources) >= 2
    /\ sources[Len(sources)] = SlideSource(fname, 2, 3)
    /\ mode.slide.lineno = 3

\* C17: the end-of-input step depends on the final mode only: a capturing
\* mode pushes the slide in progress once and records no error, Metadata
\* records one IncompleteMetadata and pushes no slide, Aborting changes
\* neither list, Initial records MissingInitialDelimiter.
C17_EndOfInput ==
    [][(pc = "final" /\ pc' = "done") =>
          /\ mode.tag \in {"CapturingSlide", "CapturingNotes"} =>
                (slides' = Append(slides, mode.slide) /\ errs' = errs)
          /\ mode.tag = "Metadata" =>
                /\ slides' = slides
                /\ errs' = Append(errs, [kind |-> "IncompleteMetadata", line |-> mode.ofs + 1])
          /\ mode.tag = "Aborting" => (slides' = slides /\ errs' = errs)
          /\ mode.tag = "Initial" =>
                (slides' = slides /\ errs' = Append(errs, [kind |-> "MissingInitialDelimiter"]))
      ]_vars

\* C17 witness: the input ended while the second slide was capturing notes,
\* and the deck returned holds both slides
C17_Witness ==
    /\ pc = "done"
    /\ mode.tag = "CapturingNotes"
    /\ result.tag = "Ok"
    /\ Len(result.slides) = 2
    /\ result.slides[2] = mode.slide

\* least element of a non-empty set of integers
MinOf(S) == CHOOSE x \in S : \A y \in S : x <= y

\* index in text of the first line of a slide's body
BodyFirst(slide) == TerminatorOfs(slide) + 2

\* index in text just past a slide's body: the next delimiter line, or the end
BodyEnd(slide) ==
    LET ds == {k \in BodyFirst(slide)..Len(text) : DashOnly(text[k])}
    IN  IF ds = {} THEN Len(text) + 1 ELSE MinOf(ds)

\* index in text of the first "???" line of a slide's body, BodyEnd without one
FirstQuest(slide) ==
    LET qs == {k \in BodyFirst(slide)..(BodyEnd(slide) - 1) : text[k] = Quest}
    IN  IF qs = {} THEN BodyEnd(slide) ELSE MinOf(qs)

\* the lines text[lo..hi] without the "***" lines
RECURSIVE LinesWithoutStars(_, _)
LinesWithoutStars(lo, hi) ==
    IF lo > hi THEN <<>>
    ELSE (IF text[lo] = Stars THEN <<>> ELSE <<text[lo]>>) \o LinesWithoutStars(lo + 1, hi)

\* concatenation of a sequence of sequences
RECURSIVE Concat(_)
Concat(ss) == IF ss = <<>> THEN <<>> ELSE ss[1] \o Concat(Tail(ss))

\* C18: the body of a finalized slide is preserved: its parts, concatenated,
\* are the lines between its terminator and the first "???" (or the next
\* delimiter / end of input) without the "***" lines, and its notes are the
\* lines after that first "???" up to the next delimiter / end of input.
C18_BodyPreserved ==
    pc = "done" =>
        \A i \in 1..Len(slides) :
            /\ Concat(slides[i].parts) =
                  LinesWithoutStars(BodyFirst(slides[i]), FirstQuest(slides[i]) - 1)
            /\ slides[i].notes =
                  SubSeq(text, FirstQuest(slides[i]) + 1, BodyEnd(slides[i]) - 1)

\* C19: in Metadata only a line equal to the terminator closes the block;
\* any other line (dash-only, "***", "???", blank under "...") is appended
\* to the accumulator and leaves the opening offset, the terminator, the
\* deck and the errors unchanged; so the accumulator holds every line since
\* the opening one and none of them is the terminator.
C19_MetadataAccumulates ==
    /\ [][(TookLine /\ mode.tag = "Metadata") =>
             IF line' = mode.delim
             THEN mode'.tag \in {"CapturingSlide", "Aborting"}
             ELSE /\ mode' = [tag |-> "Metadata", ofs |-> mode.ofs, delim |-> mode.delim,
                              raw_meta |-> Append(mode.raw_meta, line')]
                  /\ UNCHANGED <<slides, errs, sources, calls>>
         ]_vars
    /\ [](mode.tag = "Metadata" =>
             /\ mode.raw_meta = SubSeq(text, mode.ofs + 2, Len(text))
             /\ \A k \in 1..Len(mode.raw_meta) : mode.raw_meta[k] # mode.delim)

\* C19 witness: a block terminated by "..." has accumulated a blank line, a
\* dash-only line, "***" and "???"
C19_Witness ==
    /\ mode.tag = "Metadata"
    /\ mode.delim = Dots
    /\ mode.raw_meta = <<Empty, Dash(3), Stars, Quest>>

ScanKinds == {"BadMetadata", "IncompleteMetadata"}

\* C20: the error list is in file order: the lines of its BadMetadata and
\* IncompleteMetadata entries increase strictly, IncompleteMetadata occurs
\* only as the last entry, MissingInitialDelimiter only as the sole entry,
\* and the scan never returns to Initial.
C20_ErrorListShape ==
    /\ [](/\ \A i, j \in 1..Len(errs) :
                (i < j /\ errs[i].kind \in ScanKinds /\ errs[j].kind \in ScanKinds) =>
                    errs[i].line < errs[j].line
          /\ \A i \in 1..Len(errs) :
                /\ errs[i].kind \in ScanKinds \cup {"MissingInitialDelimiter"}
                /\ errs[i].kind = "IncompleteMetadata" => i = Len(errs)
                /\ errs[i].kind = "MissingInitialDelimiter" => Len(errs) = 1)
    /\ [][mode.tag # "Initial" => mode'.tag # "Initial"]_vars

\* C20 witness: two failed blocks followed by a block left open
C20_Witness ==
    /\ pc = "done"
    /\ Len(errs) = 3
    /\ errs[1].kind = "BadMetadata" /\ errs[1].line = 1
    /\ errs[2].kind = "BadMetadata" /\ errs[2].line = 3
    /\ errs[3] = IncompleteMetadata(5)

====
